---- MODULE Spec2Model ----
(***************************************************************************)
(* A model of duan_jandan: the crawl of jandan.net/duan (episode.py), the  *)
(* export writers (file_generator.py) and the mail dispatch                *)
(* (mail_worker.py).                                                       *)
(*                                                                         *)
(* A Python str is the sequence of its pieces, so that split, replace,     *)
(* join and slicing are computed, not assumed.  A piece is one character;  *)
(* a literal of the program that nothing splits (BASE_URL, 'page-',        *)
(* '#comments', the words of the header line) is one piece.                *)
(***************************************************************************)
EXTENDS Integers, Sequences, FiniteSets, TLC

\* ------------------------------------------------------------------ bounds
\* most lines of a generated element text
MaxLines == 6
\* largest range_count a job hands to loot
MaxRange == 2
\* largest page number the index page announces
MaxPage == 2
\* job runs the scheduler triggers
MaxRuns == 2

\* ------------------------------------------------------- Python str and list
NL == "\n"
SP == " "
LB == "["
RB == "]"

\* ''.join(parts)
RECURSIVE join(_)
join(parts) ==
    IF parts = <<>> THEN <<>> ELSE Head(parts) \o join(Tail(parts))

\* sep.join(parts), sep one character
RECURSIVE join_with(_, _)
join_with(parts, sep) ==
    IF parts = <<>> THEN <<>>
    ELSE IF Len(parts) = 1 THEN Head(parts)
    ELSE Head(parts) \o <<sep>> \o join_with(Tail(parts), sep)

\* position of the first sep in s, 0 when there is none
RECURSIVE find_char(_, _, _)
find_char(s, sep, k) ==
    IF k > Len(s) THEN 0
    ELSE IF s[k] = sep THEN k
    ELSE find_char(s, sep, k + 1)

\* s.split(sep), sep one character: always at least one piece
RECURSIVE split(_, _)
split(s, sep) ==
    LET k == find_char(s, sep, 1) IN
    IF k = 0 THEN <<s>>
    ELSE <<SubSeq(s, 1, k - 1)>> \o split(SubSeq(s, k + 1, Len(s)), sep)

\* s.replace(ch, '')
replace(s, ch) == SelectSeq(s, LAMBDA c : c # ch)

\* lst[a:-1] for a >= 0 (0-based a): the items from index a up to, not
\* including, the last one
slice_to_last(lst, a) ==
    IF Len(lst) - 1 <= a THEN <<>> ELSE SubSeq(lst, a + 1, Len(lst) - 1)

\* lst[-1]
last(lst) == lst[Len(lst)]

\* ---------------------------------------------------------- reveal_details
\* in place of the list, when Python raises IndexError (a list index out of
\* range); no duan_list equals it
IndexError == << <<"IndexError">> >>

\* a buggy reveal_details: like/unlike read one token too far to the right
reveal_details_shifted(text) ==
    LET text_pieces == split(text, NL) IN
    IF Len(text_pieces) < 3 THEN IndexError
    ELSE
      LET votes_pieces == split(last(text_pieces), SP) IN
      IF Len(votes_pieces) < 6 THEN IndexError
      ELSE << text_pieces[3], text_pieces[1],
              join(slice_to_last(text_pieces, 3)),
              replace(replace(votes_pieces[4], LB), RB),
              replace(replace(votes_pieces[6], LB), RB) >>

\* a buggy reveal_details: the votes line is joined into the text
reveal_details_greedy(text) ==
    LET text_pieces == split(text, NL) IN
    IF Len(text_pieces) < 3 THEN IndexError
    ELSE
      LET votes_pieces == split(last(text_pieces), SP) IN
      IF Len(votes_pieces) < 5 THEN IndexError
      ELSE << text_pieces[3], text_pieces[1],
              join(SubSeq(text_pieces, 4, Len(text_pieces))),
              replace(replace(votes_pieces[3], LB), RB),
              replace(replace(votes_pieces[5], LB), RB) >>

\* a buggy reveal_details: a short votes line is padded instead of raising
reveal_details_padded(text) ==
    LET text_pieces == split(text, NL) IN
    IF Len(text_pieces) < 3 THEN IndexError
    ELSE
      LET votes_pieces == split(last(text_pieces), SP) \o << <<>>, <<>>, <<>>, <<>> >> IN
      << text_pieces[3], text_pieces[1],
         join(slice_to_last(text_pieces, 3)),
         replace(replace(votes_pieces[3], LB), RB),
         replace(replace(votes_pieces[5], LB), RB) >>

\* reveal_details(duan_element), on the element's text: the list
\* [id, author, duan_text, vote_like, vote_unlike], or IndexError when
\* text_pieces[2], votes_pieces[2] or votes_pieces[4] does not exist
reveal_details(text) ==
    LET text_pieces == split(text, NL) IN
    IF Len(text_pieces) < 3 THEN IndexError
    ELSE
      LET votes_pieces == split(last(text_pieces), SP) IN
      IF Len(votes_pieces) < 5 THEN IndexError
      ELSE << text_pieces[3], text_pieces[1],
              join(slice_to_last(text_pieces, 3)),
              replace(replace(votes_pieces[3], LB), RB),
              replace(replace(votes_pieces[5], LB), RB) >>

\* the fields of a duan_list
IdOf(e) == e[1]
AuthorOf(e) == e[2]
TextOf(e) == e[3]
LikeOf(e) == e[4]
UnlikeOf(e) == e[5]

\* ------------------------------------------------------- element texts
\* An element's text is laid out as lines, a line as words separated by
\* single spaces (a word holds no space and no newline, and may be empty).
ElementText(layout) ==
    join_with([k \in 1..Len(layout) |-> join_with(layout[k], SP)], NL)

\* lines the generated element texts are made of
LineAuthor == << <<"A", "l">> >>
LineEmpty == << <<>> >>
LineContent == << <<"H", "i">>, <<"y", "o">> >>
LineVotes == << <<"r", "p">>, <<"O", "O">>, <<"[", "1", "]", "2", "]">>,
                <<"X", "X">>, <<"[", "3", "]">> >>
LineShortVotes == << <<"O", "O">>, <<"[", "1", "2", "]">>, <<"X", "X">>,
                     <<"[", "3", "]">> >>
LinePool == {LineAuthor, LineEmpty, LineContent, LineVotes, LineShortVotes}

\* the scenario block of the specification
AliceLayout ==
    << << <<"A", "l", "i", "c", "e">> >>,
       << <<"m", "e", "t", "a">> >>,
       << <<"1", "2", "3">> >>,
       << <<"H", "e", "l", "l", "o">> >>,
       << <<"w", "o", "r", "l", "d">> >>,
       << <<"[", "r", "e", "p", "o", "r", "t", "]">>, <<"[", "t", "i", "p", "]">>,
          <<"[", "l", "i", "k", "e", "]">>, <<"[", "1", "2", "]">>,
          <<"[", "u", "n", "l", "i", "k", "e", "]">>, <<"[", "3", "]">> >> >>

\* every layout of 1..MaxLines lines of the pool, and the scenario block
Layouts ==
    UNION {[1..n -> LinePool] : n \in 1..MaxLines} \cup {AliceLayout}


\* ------------------------------------------------------------- Python int
Digits == <<"0", "1", "2", "3", "4", "5", "6", "7", "8", "9">>
IsDigit(c) == \E k \in 1..10 : Digits[k] = c
DigitValue(c) == (CHOOSE k \in 1..10 : Digits[k] = c) - 1

\* the literals int(s) accepts, of those the model meets: an optional sign
\* and one or more decimal digits
is_int(s) ==
    LET body == IF s # <<>> /\ Head(s) \in {"-", "+"} THEN Tail(s) ELSE s IN
    /\ body # <<>>
    /\ \A k \in 1..Len(body) : IsDigit(body[k])

RECURSIVE digits_value(_)
digits_value(s) ==
    IF s = <<>> THEN 0
    ELSE 10 * digits_value(SubSeq(s, 1, Len(s) - 1)) + DigitValue(s[Len(s)])

\* int(s), for s with is_int(s)
to_int(s) ==
    IF Head(s) = "-" THEN 0 - digits_value(Tail(s))
    ELSE IF Head(s) = "+" THEN digits_value(Tail(s))
    ELSE digits_value(s)

\* str(n) of a natural number
RECURSIVE nat_str(_)
nat_str(n) ==
    IF n < 10 THEN <<Digits[n + 1]>>
    ELSE nat_str(n \div 10) \o <<Digits[(n % 10) + 1]>>

\* str(n) of an integer, as the f-string formats {page}
str(n) == IF n < 0 THEN <<"-">> \o nat_str(0 - n) ELSE nat_str(n)

\* ----------------------------------------------------------- construct_url
BASE_URL == <<"http://jandan.net/duan/">>

\* a buggy construct_url: the sign of the page is lost
construct_url_unsigned(page) ==
    BASE_URL \o <<"page-">> \o nat_str(IF page < 0 THEN 0 - page ELSE page)
        \o <<"#comments">>

\* construct_url, line 34: BASE_URL + f'page-{page}#comments'
construct_url(page) == BASE_URL \o <<"page-">> \o str(page) \o <<"#comments">>

\* ------------------------------------------------------------ Python dict
\* A dict is the sequence of its (key, value) items in insertion order.
dict_has(dct, k) == \E n \in 1..Len(dct) : dct[n][1] = k
dict_index(dct, k) == CHOOSE n \in 1..Len(dct) : dct[n][1] = k
dict_get(dct, k) == dct[dict_index(dct, k)][2]
dict_keys(dct) == {dct[n][1] : n \in 1..Len(dct)}
dict_values(dct) == [n \in 1..Len(dct) |-> dct[n][2]]

\* a buggy merge: an id already present keeps its first entry
dict_set_first_wins(dct, k, v) ==
    IF dict_has(dct, k) THEN dct ELSE Append(dct, <<k, v>>)

\* a buggy merge: the dict is keyed by the author, temp[1]
dict_set_by_author(dct, k, v) ==
    IF dict_has(dct, v[2])
    THEN [dct EXCEPT ![dict_index(dct, v[2])] = <<v[2], v>>]
    ELSE Append(dct, <<v[2], v>>)

\* a buggy merge: an id already present moves to the end of the dict
dict_set_move_to_end(dct, k, v) ==
    Append(SelectSeq(dct, LAMBDA item : item[1] # k), <<k, v>>)

\* dct[k] = v
dict_set(dct, k, v) ==
    IF dict_has(dct, k)
    THEN [dct EXCEPT ![dict_index(dct, k)] = <<k, v>>]
    ELSE Append(dct, <<k, v>>)

\* ---------------------------------------------------------------- the site
\* What jandan.net answers.  The index page's span.current-comment-page:
\* "absent" when find returns no element, "broken" when find raises (the
\* except branch leaves page_block None), otherwise the text of the first
\* match.
ScenarioPage == 75
IndicatorTexts ==
    {<<LB>> \o str(p) \o <<RB>> : p \in (1..MaxPage) \cup {ScenarioPage}}
        \cup {<<LB, "x", RB>>}
NoElement == <<"absent">>
FindRaised == <<"broken">>
Indicators == {NoElement, FindRaised} \cup IndicatorTexts

\* an element of five lines: author, a metadata line, id, one content line,
\* and the votes line
Post(author, id, content, like, unlike) ==
    << <<author>>, << <<"m">> >>, <<id>>, content,
       << <<"r", "p">>, <<"O", "O">>, <<LB>> \o like \o <<RB>>,
          <<"X", "X">>, <<LB>> \o unlike \o <<RB>> >> >>

Post7 == Post(<<"A", "l">>, <<"7">>, << <<"H", "i">>, <<"y", "o">> >>, <<"1", "2">>, <<"3">>)
Post7Again == Post(<<"B", "o">>, <<"7">>, << <<"Y", "o">> >>, <<"1">>, <<"0">>)
Post9Again == Post(<<"C", "y">>, <<"9">>, << <<"N", "o">> >>, <<"2">>, <<"1">>)
Post8 == Post(<<"C", "y">>, <<"8">>, << <<"O", "h">> >>, <<"4">>, <<"5">>)
Post9 == Post(<<"A", "l">>, <<"9">>, << <<"H", "a">> >>, <<"0">>, <<"0">>)
\* three lines only, the last with five words
PostThreeLines == << << <<"D", "i">> >>, << <<"m">> >>, LineVotes >>
\* two lines only
PostTwoLines == << << <<"E", "d">> >>, << <<"m">> >> >>

\* the ol.commentlist > li elements of a page, in document order
Docs ==
    { <<>>, <<Post7, Post8>>, <<Post7Again, Post9, Post9Again>>,
      <<Post9, PostTwoLines, Post8>>, <<PostThreeLines>> }

\* the pages loot can ask for
PageNums ==
    ((2 - MaxRange)..MaxPage) \cup ((ScenarioPage + 1 - MaxRange)..ScenarioPage)
PageUrls == {construct_url(p) : p \in PageNums}

\* ------------------------------------------------------------------ state
VARIABLES
    runs,          \* job runs started so far
    pc,            \* where the running job stands
    type_file,     \* job: 'html', job2: 'txt'; send_duan: typet
    range_count,   \* loot's parameter
    current_page,  \* loot: the str get_current_page returned
    i,             \* loot: the loop index
    page,          \* loot: page; construct_url: its parameter
    url,           \* loot: url; construct_url: what it returned
    duan_block,    \* loot: the elements of the page being read
    j,             \* loot: the position of d in duan_block
    d,             \* the element reveal_details reads
    temp,          \* loot: what reveal_details returned
    duan_dict,     \* loot: the dict being filled
    result,        \* job: <<the dict loot returned>>, <<>> before it returns
    fetched,       \* the URLs session.get was called with in this run
    merged,        \* the lists stored in duan_dict in this run, in order
    steps,         \* the calls of job that returned in this run, in order
    sent,          \* the attachments send_mail was called with in this run
    error,         \* the exception that ended this run
    prev,          \* <<range_count, dict>> of the last loot that returned
                   \* in an earlier run, <<>> when there is none
    site,          \* what the site has answered so far
    install_dir,   \* the directory that holds util/
    text_file,     \* new_10.txt: its lines
    html_file      \* new_10.html: its parts

vars == << runs, pc, type_file, range_count, current_page, i, page, url,
           duan_block, j, d, temp, duan_dict, result, fetched, merged, steps,
           sent, error, prev, site, install_dir, text_file, html_file >>

\* a str variable that is not set; no str equals it
None == <<"None">>
\* a file that does not exist; no file content equals it
Absent == << <<"absent">> >>
\* an answer the site has not given yet
Unknown == <<"unknown">>
UnknownDoc == << << << <<"unknown">> >> >> >>

\* ---------------------------------------------------------------- os.path
\* A path is the sequence of its components below the root directory.
dirname(p) == SubSeq(p, 1, Len(p) - 1)
path_join(p, c) == Append(p, c)
\* os.path.abspath of an absolute path: 'x/..' is dropped, '..' at the root
\* too
RECURSIVE abspath(_)
abspath(p) ==
    IF p = <<>> THEN <<>>
    ELSE LET front == abspath(dirname(p)) IN
         IF last(p) = ".."
         THEN (IF front = <<>> THEN <<>> ELSE dirname(front))
         ELSE Append(front, last(p))

\* where the project is installed in the runs of the job
HomeDir == <<"srv", "duan">>
\* deepest directory the project is installed in, for send_duan on its own
MaxDepth == 2
InstallDirs == UNION {[1..n -> {"srv", "duan", "x"}] : n \in 0..MaxDepth}

\* the state before anything ran, but for pc, the parameters and install_dir
Start ==
    /\ runs = 0
    /\ range_count = 0
    /\ current_page = None
    /\ i = 0
    /\ url = None
    /\ duan_block = <<>>
    /\ j = 0
    /\ temp = <<>>
    /\ duan_dict = <<>>
    /\ result = <<>>
    /\ fetched = <<>>
    /\ merged = <<>>
    /\ steps = <<>>
    /\ sent = <<>>
    /\ error = "None"
    /\ prev = <<>>
    /\ site = [index |-> Unknown, pages |-> [u \in PageUrls |-> UnknownDoc]]
    /\ text_file = Absent
    /\ html_file = Absent

Init ==
    /\ Start
    /\ pc = "idle"
    /\ type_file = "None"
    /\ page = 0
    /\ d = <<>>
    /\ install_dir = HomeDir

\* ----------------------------------------------------------------- the job
\* a buggy job: the exception is caught and printed, as lines 46-47 do,
\* and the job goes on to the mail
RaiseSwallowed(kind) ==
    /\ pc' = "send"
    /\ error' = kind

\* An exception nothing catches ends the run.
Raise(kind) ==
    /\ pc' = "failed"
    /\ error' = kind

\* a buggy loot: duan_dict is a module-level dict, filled by every call
fresh_dict_kept(old) == old

\* loot, line 94: duan_dict = {}, whatever an earlier call left
fresh_dict(old) == <<>>

\* The scheduler (or a caller) starts job or job2.  loot is given a
\* range_count of 0..MaxRange.
Trigger ==
    /\ pc \in {"idle", "done", "failed"}
    /\ runs < MaxRuns
    /\ runs' = runs + 1
    /\ pc' = "locate"
    /\ \E t \in {"html", "txt"} : type_file' = t
    /\ \E n \in 0..MaxRange : range_count' = n
    /\ current_page' = None
    /\ i' = 0
    /\ page' = 0
    /\ url' = None
    /\ duan_block' = <<>>
    /\ j' = 0
    /\ d' = <<>>
    /\ temp' = <<>>
    /\ duan_dict' = fresh_dict(duan_dict)
    /\ result' = <<>>
    /\ fetched' = <<>>
    /\ merged' = <<>>
    /\ steps' = <<>>
    /\ sent' = <<>>
    /\ error' = "None"
    /\ prev' = IF result # <<>> THEN <<range_count, result[1]>> ELSE prev
    /\ UNCHANGED << site, install_dir, text_file, html_file >>

\* get_current_page on the indicator the index page holds: the str it
\* returns, or the exception page_block[0] raises (IndexError on the empty
\* list, TypeError on None)
get_current_page(ind) ==
    IF ind = NoElement THEN <<"IndexError">>
    ELSE IF ind = FindRaised THEN <<"TypeError">>
    ELSE replace(replace(ind, LB), RB)

\* loot, line 89: get_current_page fetches the index page
Locate ==
    /\ pc = "locate"
    /\ fetched' = Append(fetched, BASE_URL)
    /\ \/ /\ Raise("ConnectionError")
          /\ UNCHANGED << site, current_page >>
       \/ \E ind \in Indicators :
            /\ site.index \in {Unknown, ind}
            /\ site' = [site EXCEPT !.index = ind]
            /\ LET got == get_current_page(ind) IN
               IF got \in {<<"IndexError">>, <<"TypeError">>}
               THEN Raise(got[1]) /\ UNCHANGED current_page
               ELSE /\ current_page' = got
                    /\ pc' = "loop"
                    /\ UNCHANGED error
    /\ UNCHANGED << runs, type_file, range_count, i, page, url, duan_block, j,
                    d, temp, duan_dict, result, merged, steps, sent, prev,
                    install_dir, text_file, html_file >>

\* a buggy page: the pages are walked upwards
page_of_ascending(cur, k) == to_int(cur) + k

\* loot, line 97: page = int(current_page) - i
page_of(cur, k) == to_int(cur) - k

\* loot, lines 96-100 and 107: the head of the for loop.  With all pages
\* read, loot returns duan_dict; otherwise it fetches the next page, and
\* goes on to its elements (a page without elements is done at once).
Loop ==
    /\ pc = "loop"
    /\ IF i >= range_count
       THEN /\ result' = <<duan_dict>>
            /\ steps' = Append(steps, "loot")
            /\ pc' = "header_txt"
            /\ UNCHANGED << i, page, url, duan_block, j, temp, fetched, site,
                            error >>
       ELSE IF ~ is_int(current_page)
       THEN /\ Raise("ValueError")
            /\ UNCHANGED << i, page, url, duan_block, j, temp, fetched, site,
                            result, steps >>
       ELSE /\ page' = page_of(current_page, i)
            /\ url' = construct_url(page')
            /\ fetched' = Append(fetched, url')
            /\ UNCHANGED << result, steps >>
            /\ \/ /\ Raise("ConnectionError")
                  /\ UNCHANGED << i, duan_block, j, temp, site >>
               \/ \E doc \in Docs :
                    /\ url' \in PageUrls
                    /\ site.pages[url'] \in {UnknownDoc, doc}
                    /\ site' = [site EXCEPT !.pages[url'] = doc]
                    /\ duan_block' = doc
                    /\ temp' = <<>>
                    /\ UNCHANGED error
                    /\ IF doc = <<>>
                       THEN i' = i + 1 /\ j' = 0 /\ pc' = "loop"
                       ELSE i' = i /\ j' = 1 /\ pc' = "blocks"
    /\ UNCHANGED << runs, type_file, range_count, current_page, d, duan_dict,
                    merged, sent, prev, install_dir, text_file, html_file >>

\* a buggy loot: an element reveal_details fails on is skipped, and the
\* loop goes on with the next
BlockSkipping ==
    /\ pc = "blocks"
    /\ d' = duan_block[j]
    /\ temp' = reveal_details(ElementText(duan_block[j]))
    /\ IF temp' = IndexError
       THEN UNCHANGED << duan_dict, merged >>
       ELSE /\ duan_dict' = dict_set(duan_dict, temp'[1], temp')
            /\ merged' = Append(merged, temp')
    /\ IF j = Len(duan_block)
       THEN i' = i + 1 /\ j' = 0 /\ pc' = "loop"
       ELSE i' = i /\ j' = j + 1 /\ pc' = "blocks"
    /\ UNCHANGED << runs, type_file, range_count, current_page, page, url,
                    duan_block, result, fetched, steps, sent, error, prev,
                    site, install_dir, text_file, html_file >>

\* loot, lines 102-106: one element of the page
Block ==
    /\ pc = "blocks"
    /\ d' = duan_block[j]
    /\ temp' = reveal_details(ElementText(duan_block[j]))
    /\ IF temp' = IndexError
       THEN /\ Raise("IndexError")
            /\ UNCHANGED << duan_dict, merged, i, j >>
       ELSE /\ duan_dict' = dict_set(duan_dict, temp'[1], temp')
            /\ merged' = Append(merged, temp')
            /\ UNCHANGED error
            /\ IF j = Len(duan_block)
               THEN i' = i + 1 /\ j' = 0 /\ pc' = "loop"
               ELSE i' = i /\ j' = j + 1 /\ pc' = "blocks"
    /\ UNCHANGED << runs, type_file, range_count, current_page, page, url,
                    duan_block, result, fetched, steps, sent, prev, site,
                    install_dir, text_file, html_file >>

\* ------------------------------------------------------------ the exports
TXT_NAME == "new_10.txt"
MD_NAME == "new_10.md"
HTML_NAME == "new_10.html"

\* file_generator.py, lines 18-21: __file__ is util/file_generator.py
file_dir(root) ==
    abspath(path_join(dirname(root \o <<"util", "file_generator.py">>), ".."))
text_path(root) == path_join(file_dir(root), TXT_NAME)
html_path(root) == path_join(file_dir(root), HTML_NAME)

Header == <<"id", " ", "author", " ", "text", " ", "like", " ", "unlike">>

\* a buggy duan_header_txt: the file is opened with 'a'
duan_header_txt_append(file) ==
    (IF file = Absent THEN <<>> ELSE file) \o <<Header>>

\* duan_header_txt on the file's content: open(text_path, 'w') empties the
\* file, then the header line is written
duan_header_txt(file) == <<Header>>

HeaderTxt ==
    /\ pc = "header_txt"
    /\ \/ Raise("OSError") /\ UNCHANGED << text_file, steps >>
       \/ /\ text_file' = duan_header_txt(text_file)
          /\ steps' = Append(steps, "duan_header_txt")
          /\ pc' = "write_txt"
          /\ UNCHANGED error
    /\ UNCHANGED << runs, type_file, range_count, current_page, i, page, url,
                    duan_block, j, d, temp, duan_dict, result, fetched,
                    merged, sent, prev, site, install_dir, html_file >>

\* duan_write_txt: the rows appended, one ' '.join(v) per item
txt_rows(dct) ==
    [n \in 1..Len(dct) |-> join_with(dct[n][2], SP)]

\* a buggy job: the HTML export is never written
after_write_txt_no_html(t) == "send"

\* what follows duan_write_txt: duan_write_html in job (lines 114-116),
\* send_duan in job2 (lines 123-124)
after_write_txt(t) == IF t = "html" THEN "write_html" ELSE "send"

\* job, lines 113-115; job2, lines 122-123
WriteTxt ==
    /\ pc = "write_txt"
    /\ \/ Raise("OSError") /\ UNCHANGED << text_file, steps >>
       \/ /\ text_file' =
                (IF text_file = Absent THEN <<>> ELSE text_file)
                    \o txt_rows(result[1])
          /\ steps' = Append(steps, "duan_write_txt")
          /\ pc' = after_write_txt(type_file)
          /\ UNCHANGED error
    /\ UNCHANGED << runs, type_file, range_count, current_page, i, page, url,
                    duan_block, j, d, temp, duan_dict, result, fetched,
                    merged, sent, prev, site, install_dir, html_file >>

\* The parts of the page bottle renders from template_content.  The
\* "% for" line is never closed by "% end", so every line after it is the
\* body of the loop.
ShellOpen == <<"<html>..<p>jandan</p>">>
ShellClose == <<"</body></html>">>
RECURSIVE template(_)
template(items) ==
    IF items = <<>> THEN <<ShellOpen>>
    ELSE template(SubSeq(items, 1, Len(items) - 1))
            \o << AuthorOf(last(items)), TextOf(last(items)),
                  LikeOf(last(items)), UnlikeOf(last(items)), ShellClose >>

\* duan_write_html
WriteHtml ==
    /\ pc = "write_html"
    /\ \/ Raise("OSError") /\ UNCHANGED << html_file, steps >>
       \/ /\ html_file' = template(dict_values(result[1]))
          /\ steps' = Append(steps, "duan_write_html")
          /\ pc' = "send"
          /\ UNCHANGED error
    /\ UNCHANGED << runs, type_file, range_count, current_page, i, page, url,
                    duan_block, j, d, temp, duan_dict, result, fetched,
                    merged, sent, prev, site, install_dir, text_file >>

\* ------------------------------------------------------------ mail_worker
\* a buggy send_duan: an unknown type falls back to the text export
file_name_txt_default(typet) ==
    IF typet = "html" THEN HTML_NAME ELSE TXT_NAME

\* send_duan, lines 35-40: the attached file's name
file_name(typet) ==
    IF typet = "txt" THEN TXT_NAME
    ELSE IF typet = "html" THEN HTML_NAME
    ELSE MD_NAME

\* send_duan, lines 33-41: __file__ is util/mail_worker.py
attach_path(root, typet) ==
    path_join(abspath(path_join(dirname(root \o <<"util", "mail_worker.py">>),
                                "..")),
              file_name(typet))

\* send_duan: the settings are read, the mail is sent
SendDuan ==
    /\ pc = "send"
    /\ \/ Raise("MailError") /\ UNCHANGED << sent, steps >>
       \/ /\ sent' = Append(sent, attach_path(install_dir, type_file))
          /\ steps' = Append(steps, "send_duan")
          /\ pc' = "done"
          /\ UNCHANGED error
    /\ UNCHANGED << runs, type_file, range_count, current_page, i, page, url,
                    duan_block, j, d, temp, duan_dict, result, fetched,
                    merged, prev, site, install_dir, text_file, html_file >>

Next ==
    \/ Trigger
    \/ Locate
    \/ Loop
    \/ Block
    \/ HeaderTxt
    \/ WriteTxt
    \/ WriteHtml
    \/ SendDuan

Spec == Init /\ [][Next]_vars

\* ------------------------------------------- reveal_details on its own
\* One call of reveal_details on an element whose text is any of Layouts.
InitExtract ==
    /\ Start
    /\ pc = "reveal"
    /\ type_file = "None"
    /\ page = 0
    /\ d \in Layouts
    /\ install_dir = HomeDir

Reveal ==
    /\ pc = "reveal"
    /\ temp' = reveal_details(ElementText(d))
    /\ pc' = "revealed"
    /\ UNCHANGED << runs, type_file, range_count, current_page, i, page, url,
                    duan_block, j, d, duan_dict, result, fetched, merged,
                    steps, sent, error, prev, site, install_dir, text_file,
                    html_file >>

NextExtract == Reveal

SpecExtract == InitExtract /\ [][NextExtract]_vars

\* ------------------------------------------------ send_duan on its own
\* One call of send_duan(typet), the project installed in any of
\* InstallDirs.
Typets == {"txt", "html", "md", "pdf", "TXT", ""}

InitMail ==
    /\ Start
    /\ pc = "mail"
    /\ type_file \in Typets
    /\ page = 0
    /\ d = <<>>
    /\ install_dir \in InstallDirs

Mail ==
    /\ pc = "mail"
    /\ sent' = Append(sent, attach_path(install_dir, type_file))
    /\ pc' = "mailed"
    /\ UNCHANGED << runs, type_file, range_count, current_page, i, page, url,
                    duan_block, j, d, temp, duan_dict, result, fetched,
                    merged, steps, error, prev, site, install_dir, text_file,
                    html_file >>

NextMail == Mail

SpecMail == InitMail /\ [][NextMail]_vars

\* ------------------------------------------- construct_url on its own
\* One call of construct_url(page), page any integer of -MaxUrlPage ..
\* MaxUrlPage.
MaxUrlPage == 120

InitUrl ==
    /\ Start
    /\ pc = "construct"
    /\ type_file = "None"
    /\ page \in (0 - MaxUrlPage)..MaxUrlPage
    /\ d = <<>>
    /\ install_dir = HomeDir

Construct ==
    /\ pc = "construct"
    /\ url' = construct_url(page)
    /\ pc' = "constructed"
    /\ UNCHANGED << runs, type_file, range_count, current_page, i, page,
                    duan_block, j, d, temp, duan_dict, result, fetched,
                    merged, steps, sent, error, prev, site, install_dir,
                    text_file, html_file >>

NextUrl == Construct

SpecUrl == InitUrl /\ [][NextUrl]_vars

\* ================================================================ claims
\* the text of line k (from 1) of a layout
LineText(layout, k) == join_with(layout[k], SP)
\* a word without any "[" or "]"
NoBrackets(w) == SelectSeq(w, LAMBDA c : c \notin {LB, RB})
\* the texts of lines a..b of a layout, one after the other
RECURSIVE LinesText(_, _, _)
LinesText(layout, a, b) ==
    IF a > b THEN <<>> ELSE LineText(layout, a) \o LinesText(layout, a + 1, b)

\* C1: the fetches of one crawl are the index page, then the pages c, c-1,
\* ..., c-n+1 in this order, each once (c the page the index announces, n
\* range_count): the log of fetches is at every moment a beginning of that
\* list, and is the whole list when loot returns.  Without a page number on
\* the index page nothing but the index page is fetched.
AnnouncedPage == to_int(NoBrackets(site.index))
FetchPlan ==
    <<BASE_URL>> \o [k \in 1..range_count |-> construct_url(AnnouncedPage - k + 1)]
C1_FetchOrder ==
    pc \notin {"idle", "reveal", "revealed"} =>
        IF site.index \in IndicatorTexts /\ is_int(NoBrackets(site.index))
        THEN /\ Len(fetched) <= Len(FetchPlan)
             /\ fetched = SubSeq(FetchPlan, 1, Len(fetched))
             /\ result # <<>> => fetched = FetchPlan
        ELSE fetched \in {<<>>, <<BASE_URL>>}
\* the scenario: c = 75 and n = 2, the crawl returned
C1_Witness ==
    /\ result # <<>>
    /\ range_count = 2
    /\ site.index = <<"[", "7", "5", "]">>
    /\ fetched = <<BASE_URL, construct_url(75), construct_url(74)>>

\* C2: last write wins: under every id merged so far, the dict (and the
\* dict loot returns) holds the list of the last element merged with that
\* id.
LastMergedAt(id) ==
    CHOOSE k \in 1..Len(merged) :
        /\ merged[k][1] = id
        /\ \A m \in (k + 1)..Len(merged) : merged[m][1] # id
HoldsLastMerged(dct) ==
    /\ dict_keys(dct) = {merged[k][1] : k \in 1..Len(merged)}
    /\ \A k \in 1..Len(merged) :
          dict_get(dct, merged[k][1]) = merged[LastMergedAt(merged[k][1])]
C2_LastWriteWins ==
    /\ pc \in {"loop", "blocks"} => HoldsLastMerged(duan_dict)
    /\ result # <<>> => HoldsLastMerged(result[1])
\* loot returned after an id was merged twice, with different fields
C2_Witness ==
    /\ result # <<>>
    /\ \E k, m \in 1..Len(merged) :
          k < m /\ merged[k][1] = merged[m][1] /\ merged[k] # merged[m]

\* C3: an element of at least 5 lines whose last line has at least 5 words
\* gives id = line 3, author = line 1, text = lines 4 .. last-1 joined
\* without separator, like and unlike = words 3 and 5 of the last line
\* without brackets.
C3_ExtractFields ==
    (pc = "revealed" /\ Len(d) >= 5 /\ Len(last(d)) >= 5) =>
        temp = << LineText(d, 3), LineText(d, 1), LinesText(d, 4, Len(d) - 1),
                  NoBrackets(last(d)[3]), NoBrackets(last(d)[5]) >>
\* six lines, two of content, and brackets inside a vote word
C3_Witness ==
    /\ pc = "revealed"
    /\ Len(d) = 6
    /\ d[4] = LineContent /\ d[5] = LineContent
    /\ last(d) = LineVotes
    /\ TextOf(temp) = <<"H", "i", " ", "y", "o", "H", "i", " ", "y", "o">>
    /\ LikeOf(temp) = <<"1", "2">>

\* C4, as claimed: the scenario block gives likeCount "12" and unlikeCount
\* "3".
C4_ScenarioCounts ==
    (pc = "revealed" /\ d = AliceLayout) =>
        temp = << <<"1", "2", "3">>, <<"A", "l", "i", "c", "e">>,
                  <<"H", "e", "l", "l", "o", "w", "o", "r", "l", "d">>,
                  <<"1", "2">>, <<"3">> >>
\* C4, amended: the scenario block gives id "123", author "Alice", text
\* "Helloworld", likeCount "like" and unlikeCount "unlike": words 3 and 5 of
\* its votes line are the labels.
C4_ScenarioLabels ==
    (pc = "revealed" /\ d = AliceLayout) =>
        temp = << <<"1", "2", "3">>, <<"A", "l", "i", "c", "e">>,
                  <<"H", "e", "l", "l", "o", "w", "o", "r", "l", "d">>,
                  <<"l", "i", "k", "e">>, <<"u", "n", "l", "i", "k", "e">> >>
C4_Witness ==
    pc = "revealed" /\ d = AliceLayout /\ temp # IndexError

\* C5: reveal_details fails on every element of fewer than 5 lines.
C5_FewLinesFail ==
    (pc = "revealed" /\ Len(d) < 5) => temp = IndexError

\* C6: reveal_details fails on every element whose last line has fewer than
\* 5 words, whatever the number of lines.
C6_FewTokensFail ==
    (pc = "revealed" /\ Len(last(d)) < 5) => temp = IndexError
\* six lines, the last with four words
C6_Witness ==
    /\ pc = "revealed"
    /\ Len(d) = 6
    /\ last(d) = LineShortVotes
    /\ temp = IndexError

\* C7: every list in the dict has a non-empty text and an author.
C7_TextAndAuthor ==
    \A n \in 1..Len(duan_dict) :
        /\ TextOf(duan_dict[n][2]) # <<>>
        /\ AuthorOf(duan_dict[n][2]) # None

\* C8: while the ids merged are pairwise distinct, the dict (and the dict
\* loot returns) has as many keys as elements were merged.
DistinctIds ==
    \A k, m \in 1..Len(merged) : merged[k][1] = merged[m][1] => k = m
C8_KeyCount ==
    DistinctIds =>
        /\ pc \in {"loop", "blocks"} =>
              Cardinality(dict_keys(duan_dict)) = Len(merged)
        /\ result # <<>> => Cardinality(dict_keys(result[1])) = Len(merged)
\* loot returned three elements of two pages, all ids different
C8_Witness ==
    /\ result # <<>>
    /\ DistinctIds
    /\ Len(merged) = 3
    /\ Len(fetched) = 3

\* C9: with the indicator absent or not an integer, the crawl ends in an
\* error: loot returns nothing and fetches no page, whatever range_count.
BadIndicator ==
    \/ site.index \in {NoElement, FindRaised}
    \/ site.index \in IndicatorTexts /\ ~ is_int(NoBrackets(site.index))
C9_BadIndicatorFails ==
    (BadIndicator /\ pc \notin {"idle", "locate"}) =>
        /\ result = <<>>
        /\ fetched = <<BASE_URL>>
        /\ pc \in {"loop", "failed"}

\* C10: a run that an exception ended has sent no mail, and takes no
\* further step: the next step is a new run.
C10_FailureIsFatal ==
    /\ [](error # "None" => (pc = "failed" /\ sent = <<>>))
    /\ [](sent # <<>> => pc = "done")
    /\ [][pc = "failed" => (pc' = "locate" /\ runs' = runs + 1)]_vars
\* the HTML export failed after the text export was written
C10_Witness ==
    /\ runs = 1
    /\ pc = "failed"
    /\ error = "OSError"
    /\ text_file # Absent /\ Len(text_file) > 1
    /\ sent = <<>>

\* C11, as claimed: send_duan attaches the text export's path for 'txt',
\* the HTML export's path for 'html', and the text export's path for every
\* other typet.
C11_UnknownGivesText ==
    pc = "mailed" =>
        sent = << IF type_file = "html" THEN html_path(install_dir)
                  ELSE text_path(install_dir) >>
\* C11, amended: send_duan attaches the text export's path for 'txt', the
\* HTML export's path for 'html', and for every other typet ('md' as well)
\* the path of new_10.md in the same directory, which is the path of neither
\* export.
C11_UnknownGivesMarkdown ==
    pc = "mailed" =>
        /\ Len(sent) = 1
        /\ type_file = "txt" => sent[1] = text_path(install_dir)
        /\ type_file = "html" => sent[1] = html_path(install_dir)
        /\ type_file \notin {"txt", "html"} =>
              /\ sent[1] = Append(install_dir, "new_10.md")
              /\ dirname(sent[1]) = dirname(text_path(install_dir))
              /\ sent[1] \notin {text_path(install_dir), html_path(install_dir)}
\* send_duan('pdf') with the project in /srv/duan
C11_Witness ==
    /\ pc = "mailed"
    /\ type_file = "pdf"
    /\ install_dir = <<"srv", "duan">>
    /\ sent = << <<"srv", "duan", "new_10.md">> >>

\* C12: the steps of a run are, in this order, loot, duan_header_txt and
\* duan_write_txt (the text export, in every run), duan_write_html if and
\* only if the run is job ('html'), then send_duan: at every moment the
\* steps taken are a beginning of this list, and a mail was sent only when
\* all of it was taken.  A run that ended well has sent one mail, with the
\* export matching its type, and that file holds what this run wrote from
\* the dict its loot returned.
JobSteps ==
    <<"loot", "duan_header_txt", "duan_write_txt">>
        \o (IF type_file = "html" THEN <<"duan_write_html">> ELSE <<>>)
        \o <<"send_duan">>
C12_StepOrder ==
    /\ pc \notin {"idle", "reveal", "revealed"} =>
          /\ Len(steps) <= Len(JobSteps)
          /\ steps = SubSeq(JobSteps, 1, Len(steps))
          /\ sent # <<>> => steps = JobSteps
    /\ pc = "done" =>
          /\ steps = JobSteps
          /\ Len(sent) = 1
          /\ type_file = "txt" =>
                /\ sent[1] = text_path(install_dir)
                /\ text_file = <<Header>> \o txt_rows(result[1])
          /\ type_file = "html" =>
                /\ sent[1] = html_path(install_dir)
                /\ html_file = template(dict_values(result[1]))
\* a second run, of job, ended well; its dict is not the first run's
C12_Witness ==
    /\ runs = 2
    /\ pc = "done"
    /\ type_file = "html"
    /\ steps = <<"loot", "duan_header_txt", "duan_write_txt",
                 "duan_write_html", "send_duan">>
    /\ prev # <<>>
    /\ prev[2] # result[1]
    /\ Len(result[1]) >= 2
    /\ sent = << <<"srv", "duan", "new_10.html">> >>

\* C13: with the site unchanged, a loot that returns after an earlier loot
\* with the same range_count returned gives a dict with the same keys and
\* the same list under every key; and every loot starts from an empty dict:
\* before its first page is read the dict is empty, whatever the run before
\* left, and afterwards its keys are the ids merged in this run only.
SameEntries(a, b) ==
    /\ dict_keys(a) = dict_keys(b)
    /\ \A k \in dict_keys(a) : dict_get(a, k) = dict_get(b, k)
C13_SameCrawlSameDict ==
    /\ (result # <<>> /\ prev # <<>> /\ prev[1] = range_count) =>
          SameEntries(result[1], prev[2])
    /\ (pc = "locate" \/ (pc = "loop" /\ i = 0)) => duan_dict = <<>>
    /\ pc \in {"loop", "blocks"} =>
          dict_keys(duan_dict) = {merged[k][1] : k \in 1..Len(merged)}
\* two loots of two pages returned, one after the other, several ids each
C13_Witness ==
    /\ runs = 2
    /\ result # <<>>
    /\ prev # <<>>
    /\ prev[1] = 2 /\ range_count = 2
    /\ Len(prev[2]) >= 3
    /\ SameEntries(result[1], prev[2])

\* C14: when a run has ended well, new_10.txt is the header line
\* 'id author text like unlike' followed by one row per item of the dict
\* this run's loot returned, in the dict's order and nothing else: row n is
\* id, author, text, like and unlike of item n with one space between them.
\* No line of an earlier run and no second header is left.
RowOf(v) ==
    IdOf(v) \o <<" ">> \o AuthorOf(v) \o <<" ">> \o TextOf(v) \o <<" ">>
        \o LikeOf(v) \o <<" ">> \o UnlikeOf(v)
C14_TextExport ==
    pc = "done" =>
        /\ Len(text_file) = 1 + Len(result[1])
        /\ text_file[1] =
              <<"id", " ", "author", " ", "text", " ", "like", " ", "unlike">>
        /\ \A n \in 1..Len(result[1]) :
              text_file[n + 1] = RowOf(result[1][n][2])
\* the second run ended well; the first had written a row the second's dict
\* does not give
C14_Witness ==
    /\ runs = 2
    /\ pc = "done"
    /\ prev # <<>>
    /\ Len(result[1]) >= 2
    /\ \E n \in 1..Len(prev[2]) :
          \A m \in 1..Len(text_file) : text_file[m] # RowOf(prev[2][n][2])

\* C15: whatever the dict holds (no item, one, or more), new_10.html as
\* duan_write_html wrote it is the opening part of the page once, then
\* author, text, like and unlike of every item in the dict's order, then
\* the closing part (</body></html>) once.
RECURSIVE EntryBlocks(_)
EntryBlocks(items) ==
    IF items = <<>> THEN <<>>
    ELSE << AuthorOf(items[1]), TextOf(items[1]), LikeOf(items[1]),
            UnlikeOf(items[1]) >> \o EntryBlocks(SubSeq(items, 2, Len(items)))
C15_OneShell ==
    (\E n \in 1..Len(steps) : steps[n] = "duan_write_html") =>
        html_file = <<ShellOpen>> \o EntryBlocks(dict_values(result[1]))
                        \o <<ShellClose>>

\* C16: with the index page announcing a page c >= 1, every page loot
\* builds a URL for and fetches is numbered 1 or above, whatever
\* range_count.
C16_PositivePages ==
    (current_page # None /\ is_int(current_page) /\ to_int(current_page) >= 1
        /\ url # None) =>
        /\ page >= 1
        /\ \A k \in 2..Len(fetched) :
              \E p \in 1..to_int(current_page) : fetched[k] = construct_url(p)

\* C17: for every integer page, construct_url(page) is BASE_URL, then
\* 'page-', then the decimal form of page, then '#comments': the decimal
\* form is a '-' exactly when page is negative, followed by the digits of
\* the absolute value without a leading zero, and int() of it gives page
\* back.  The call changes nothing but what it returns.
Abs(n) == IF n < 0 THEN 0 - n ELSE n
DecimalOf(s, n) ==
    LET body == IF n < 0 THEN Tail(s) ELSE s IN
    /\ s # <<>>
    /\ n < 0 => Head(s) = "-"
    /\ body # <<>>
    /\ \A k \in 1..Len(body) : IsDigit(body[k])
    /\ Len(body) > 1 => body[1] # "0"
    /\ digits_value(body) = Abs(n)
    /\ to_int(s) = n
C17_UrlForm ==
    /\ [](pc = "constructed" =>
            /\ Len(url) >= 4
            /\ url[1] = "http://jandan.net/duan/"
            /\ url[2] = "page-"
            /\ url[Len(url)] = "#comments"
            /\ DecimalOf(SubSeq(url, 3, Len(url) - 1), page))
    /\ [][pc = "construct" =>
            /\ pc' = "constructed"
            /\ UNCHANGED << runs, type_file, range_count, current_page, i,
                            page, duan_block, j, d, temp, duan_dict, result,
                            fetched, merged, steps, sent, error, prev, site,
                            install_dir, text_file, html_file >>]_vars
\* construct_url(-105)
C17_Witness ==
    /\ pc = "constructed"
    /\ page = 0 - 105
    /\ url = <<"http://jandan.net/duan/", "page-", "-", "1", "0", "5",
               "#comments">>

\* C18: when reveal_details fails on element j of the page loot is reading,
\* the run ends there with that error: the lists merged are those of all
\* elements of the pages read before and of elements 1 .. j-1 of this page
\* and no other, the page is the last one fetched, loot has returned
\* nothing, and no export or mail followed.  When loot has returned, every
\* one of its range_count pages was fetched and every element of every
\* page gave a list that was merged.
PageDoc(k) == site.pages[construct_url(to_int(current_page) - k)]
RecordsOf(doc, n) == [m \in 1..n |-> reveal_details(ElementText(doc[m]))]
RECURSIVE RecordsOfPages(_)
RecordsOfPages(k) ==
    IF k = 0 THEN <<>>
    ELSE RecordsOfPages(k - 1) \o RecordsOf(PageDoc(k - 1), Len(PageDoc(k - 1)))
C18_AllOrNothing ==
    /\ (temp = IndexError /\ pc # "revealed") =>
          /\ pc = "failed"
          /\ error = "IndexError"
          /\ j \in 1..Len(duan_block)
          /\ d = duan_block[j]
          /\ merged = RecordsOfPages(i) \o RecordsOf(duan_block, j - 1)
          /\ \A m \in 1..Len(merged) : merged[m] # IndexError
          /\ Len(fetched) = i + 2
          /\ last(fetched) = construct_url(to_int(current_page) - i)
          /\ result = <<>>
          /\ steps = <<>>
          /\ sent = <<>>
    /\ result # <<>> =>
          /\ temp # IndexError
          /\ Len(fetched) = range_count + 1
          /\ merged = RecordsOfPages(range_count)
          /\ \A m \in 1..Len(merged) : merged[m] # IndexError
\* the second page's second element of three fails, after two elements of
\* the first page and one of the second were merged
C18_Witness ==
    /\ pc = "failed"
    /\ temp = IndexError
    /\ i = 1
    /\ j = 2
    /\ Len(duan_block) = 3
    /\ Len(merged) = 3
    /\ duan_dict # <<>>
    /\ result = <<>>

\* C19: the items of the dict stand in the order in which their ids were
\* first merged, each holding the list merged last under its id; the rows
\* of new_10.txt and the blocks of new_10.html follow this order.  So a row
\* can stand before the row of an element that was processed earlier.
RECURSIVE FirstIds(_)
FirstIds(seq) ==
    IF seq = <<>> THEN <<>>
    ELSE LET front == FirstIds(SubSeq(seq, 1, Len(seq) - 1))
             id == seq[Len(seq)][1]
         IN IF \E n \in 1..Len(front) : front[n] = id THEN front
            ELSE Append(front, id)
FirstMergeOrder(dct) ==
    /\ [n \in 1..Len(dct) |-> dct[n][1]] = FirstIds(merged)
    /\ \A n \in 1..Len(dct) : dct[n][2] = merged[LastMergedAt(dct[n][1])]
C19_FirstMergeOrder ==
    /\ pc \in {"loop", "blocks"} => FirstMergeOrder(duan_dict)
    /\ result # <<>> => FirstMergeOrder(result[1])
    /\ pc = "done" =>
          /\ Len(text_file) = 1 + Len(FirstIds(merged))
          /\ \A n \in 1..Len(FirstIds(merged)) :
                text_file[n + 1] =
                    RowOf(merged[LastMergedAt(FirstIds(merged)[n])])
    /\ (pc = "done" /\ type_file = "html") =>
          /\ Len(html_file) = 1 + 5 * Len(FirstIds(merged))
          /\ \A n \in 1..Len(FirstIds(merged)) :
                LET v == merged[LastMergedAt(FirstIds(merged)[n])] IN
                SubSeq(html_file, 5 * n - 3, 5 * n) =
                    <<AuthorOf(v), TextOf(v), LikeOf(v), UnlikeOf(v)>>
\* a run of job ended well whose first row shows an element processed
\* after the element of its second row
C19_Witness ==
    /\ pc = "done"
    /\ type_file = "html"
    /\ Len(result[1]) >= 3
    /\ LastMergedAt(result[1][1][1]) > LastMergedAt(result[1][2][1])
    /\ text_file[2] = RowOf(merged[LastMergedAt(result[1][1][1])])
    /\ merged[1] # result[1][1][2]

====
